---- MODULE Spec2Model ----
(***************************************************************************)
(* A model of the diagnosis scripts under scripts/lib: bottleneck.py       *)
(* (analyze, main), jvm_health.py (main), diagnose.py (collect_health) and *)
(* parse_flamegraph.py (main).  One behaviour is one invocation of one     *)
(* script: Init fixes the command line and the data the two backends hold, *)
(* the actions are the steps of the script.                                *)
(*                                                                         *)
(* Numbers.  Python floats are modelled as exact rationals [n, d] with     *)
(* d > 0; a record with d = 0 stands for a raised ZeroDivisionError.       *)
(* Entities.  An entity id is <<rank, suffix>>: rank is the position of    *)
(* the container name in lexical order, suffix is "" for the container     *)
(* name itself and ":8080" for its host:port instance string.              *)
(* Function names are sequences of one-character strings.                  *)
(***************************************************************************)
EXTENDS Integers, Sequences, FiniteSets, TLC

VARIABLES
    prog,        \* the script that runs
    pc,          \* its position
    args,        \* the parsed command line
    prom,        \* what the metrics backend holds: query name -> snapshot
    pyro,        \* what the profiling backend holds: service -> profile -> top list
    thresholds,  \* bottleneck.main: parse_thresholds' result
    snap,        \* the snapshots the script fetched
    services,    \* the list the per-service loop walks
    results,     \* the per-service results
    loc,         \* analyze: the loop body's locals after its last iteration
    report,      \* bottleneck.main: the report's summary
    stdin,       \* parse_flamegraph: the JSON payload
    fg,          \* parse_flamegraph: names, levels, total, self_map, level index
    out          \* parse_flamegraph: what was printed

vars == <<prog, pc, args, prom, pyro, thresholds, snap, services, results,
          loc, report, stdin, fg, out>>

(***************************************************************************)
(* Arithmetic on floats                                                    *)
(***************************************************************************)
R(n, d) == [n |-> n, d |-> d]

Zero == R(0, 1)

RGe(a, b) == a.n * b.d >= b.n * a.d

RGt(a, b) == a.n * b.d > b.n * a.d

REq(a, b) == a.d # 0 /\ b.d # 0 /\ a.n * b.d = b.n * a.d

\* a / b ; Python raises ZeroDivisionError on b = 0 (the d = 0 mark)
RDiv(a, b) == R(a.n * b.d, a.d * b.n)

RMulInt(a, k) == R(a.n * k, a.d)

\* int(x) of a non-negative float
Trunc(a) == a.n \div a.d

Pow10(k) == IF k = 0 THEN 1 ELSE IF k = 1 THEN 10 ELSE IF k = 2 THEN 100
            ELSE IF k = 3 THEN 1000 ELSE 10000

\* round(x, k) of a non-negative float: nearest multiple of 10^-k, ties to even
RoundTo(a, k) ==
    IF a.d = 0 THEN a
    ELSE LET scaled == a.n * Pow10(k)
             q      == scaled \div a.d
             rem    == scaled % a.d
             up     == \/ 2 * rem > a.d
                       \/ 2 * rem = a.d /\ q % 2 = 1
         IN  R(IF up THEN q + 1 ELSE q, Pow10(k))

(***************************************************************************)
(* dict.get and the entity names                                           *)
(***************************************************************************)
Get(m, k, dflt) == IF k \in DOMAIN m THEN m[k] ELSE dflt

\* the container name of rank i
Svc(i) == <<i, "">>

\* "{}:8080".format(svc)
Inst(svc) == <<svc[1], ":8080">>

\* Python's < on the strings the entity ids stand for
StrLess(a, b) ==
    \/ a[1] < b[1]
    \/ a[1] = b[1] /\ a[2] = "" /\ b[2] # ""

\* None, as a value no function name equals
None == <<"None">>

\* name.replace("/", ".")
ReplaceSlash(name) == [i \in DOMAIN name |-> IF name[i] = "/" THEN "." ELSE name[i]]

\* api.SVC_MAP and api.REVERSE_MAP: the lookup tables, here without entries,
\* so that every lookup takes dict.get's default (the identity)
SVC_MAP == <<>>

REVERSE_MAP == <<>>

CPU_PROFILE == "process_cpu:cpu:nanoseconds:cpu:nanoseconds"

MEM_PROFILE == "memory:alloc_in_new_tlab_bytes:bytes:space:bytes"

MUTEX_PROFILE == "mutex:contentions:count:mutex:count"

(***************************************************************************)
(* bottleneck.py                                                           *)
(***************************************************************************)
DEFAULT_THRESHOLDS ==
    [cpu |-> R(3, 10), heap_pct |-> R(75, 100), gc |-> R(3, 100),
     threads |-> R(60, 1), err_pct |-> R(2, 1), latency_ms |-> R(500, 1)]

\* A token of the --threshold string: eq says it holds "=", k is the text
\* before the first "=", num says float() accepts the text after it, v is
\* that float.
\* ParseLoop with a value float() refuses skipped
RECURSIVE ParseLoopSkipBad(_, _, _)
ParseLoopSkipBad(toks, i, th) ==
    IF i > Len(toks) THEN [raised |-> FALSE, value |-> th]
    ELSE LET tok == toks[i] IN
         IF tok.eq /\ tok.k \in DOMAIN th /\ tok.num
         THEN ParseLoopSkipBad(toks, i + 1, [th EXCEPT ![tok.k] = tok.v])
         ELSE ParseLoopSkipBad(toks, i + 1, th)

RECURSIVE ParseLoop(_, _, _)
ParseLoop(toks, i, th) ==
    IF i > Len(toks) THEN [raised |-> FALSE, value |-> th]
    ELSE LET tok == toks[i] IN
         IF tok.eq /\ tok.k \in DOMAIN th
         THEN IF tok.num
              THEN ParseLoop(toks, i + 1, [th EXCEPT ![tok.k] = tok.v])
              ELSE [raised |-> TRUE, value |-> th]
         ELSE ParseLoop(toks, i + 1, th)

parse_thresholds(threshold_str) == ParseLoop(threshold_str, 1, DEFAULT_THRESHOLDS)

\* sorted(keys): the keys in ascending order
RECURSIVE Sorted(_)
Sorted(S) ==
    IF S = {} THEN <<>>
    ELSE LET m == CHOOSE x \in S : \A y \in S \ {x} : StrLess(x, y)
         IN  <<m>> \o Sorted(S \ {m})

\* [s for s in seq if s == container]
RECURSIVE FilterEq(_, _)
FilterEq(seq, container) ==
    IF seq = <<>> THEN <<>>
    ELSE (IF Head(seq) = container THEN <<Head(seq)>> ELSE <<>>)
         \o FilterEq(Tail(seq), container)

NoSnapshots ==
    [cpu |-> <<>>, heap_used |-> <<>>, heap_max |-> <<>>, gc |-> <<>>,
     threads |-> <<>>, req_rate |-> <<>>, err_rate |-> <<>>,
     lat_sum |-> <<>>, lat_count |-> <<>>]

\* the nine prom_instant calls of analyze, each {} when Prometheus is down
BnSnapshots(p, prom_ok) ==
    IF prom_ok
    THEN [q \in DOMAIN NoSnapshots |-> p[q]]
    ELSE NoSnapshots

BnServices(cpu, service_filter) ==
    LET all == Sorted(DOMAIN cpu) IN
    IF service_filter # None
    THEN FilterEq(all, Get(REVERSE_MAP, service_filter, service_filter))
    ELSE all

\* HeapPct without its guard on heap_max
HeapPctUnguarded(hu, hm) == RDiv(hu, hm)

HeapPct(hu, hm) == IF RGt(hm, Zero) THEN RDiv(hu, hm) ELSE Zero

AvgLat(ls, lc) == IF RGt(lc, Zero) THEN RMulInt(RDiv(ls, lc), 1000) ELSE Zero

ErrPct(er, rr) == IF RGt(rr, Zero) THEN RMulInt(RDiv(er, rr), 100) ELSE Zero

\* the list comprehension of _pyro_top
ConvertTop(funcs) ==
    [i \in DOMAIN funcs |->
        [function |-> ReplaceSlash(funcs[i].function), self_pct |-> funcs[i].pct]]

\* _pyro_top; pyro_top_functions answers with what the backend holds
PyroTop(p, pyro_ok, service, profile_id) ==
    IF ~pyro_ok THEN <<>>
    ELSE ConvertTop(Get(Get(p, service, <<>>), profile_id, <<>>))

Signal(kind, magnitude, funcs) == [kind |-> kind, magnitude |-> magnitude, funcs |-> funcs]

CpuFires(c, th) == RGe(c, th.cpu)

GcFires(g, th) == RGe(g, th.gc)

HeapFires(hp, th) == RGe(hp, th.heap_pct)

MutexFires(mutex_top) == mutex_top # <<>> /\ RGt(mutex_top[1].self_pct, R(5, 1))

\* IoFires with >= in place of >
IoFiresAtCutoff(avg_lat, signals, th) == RGe(avg_lat, th.latency_ms) /\ signals = <<>>

IoFires(avg_lat, signals, th) == RGt(avg_lat, th.latency_ms) /\ signals = <<>>

\* Signals with the GC check ahead of the CPU check
SignalsGcFirst(c, g, hp, avg_lat, cpu_top, mem_top, mutex_top, th) ==
    LET s1 == IF RGe(g, th.gc) THEN <<Signal("gc-bound", g, mem_top)>> ELSE <<>>
        s2 == s1 \o (IF RGe(c, th.cpu) THEN <<Signal("cpu-bound", c, cpu_top)>> ELSE <<>>)
        s3 == s2 \o (IF RGe(hp, th.heap_pct)
                     THEN <<Signal("memory-pressure", hp, mem_top)>> ELSE <<>>)
        s4 == s3 \o (IF mutex_top # <<>> /\ RGt(mutex_top[1].self_pct, R(5, 1))
                     THEN <<Signal("lock-bound", mutex_top[1].self_pct, mutex_top)>>
                     ELSE <<>>)
    IN  s4 \o (IF RGt(avg_lat, th.latency_ms) /\ s4 = <<>>
               THEN <<Signal("io-bound", avg_lat, <<>>)>> ELSE <<>>)

\* lines 90-100: the signals in the order they are appended
Signals(c, g, hp, avg_lat, cpu_top, mem_top, mutex_top, th) ==
    LET s1 == IF CpuFires(c, th) THEN <<Signal("cpu-bound", c, cpu_top)>> ELSE <<>>
        s2 == s1 \o (IF GcFires(g, th) THEN <<Signal("gc-bound", g, mem_top)>> ELSE <<>>)
        s3 == s2 \o (IF HeapFires(hp, th)
                     THEN <<Signal("memory-pressure", hp, mem_top)>> ELSE <<>>)
        s4 == s3 \o (IF MutexFires(mutex_top)
                     THEN <<Signal("lock-bound", mutex_top[1].self_pct, mutex_top)>>
                     ELSE <<>>)
    IN  s4 \o (IF IoFires(avg_lat, s4, th) THEN <<Signal("io-bound", avg_lat, <<>>)>> ELSE <<>>)

\* Severity with > in place of >= on the heap line
SeverityStrictHeap(c, hp, g) ==
    IF RGe(c, R(8, 10)) \/ RGt(hp, R(85, 100)) \/ RGe(g, R(1, 10))
    THEN "critical" ELSE "warning"

\* Severity with ok for a service below the three critical lines
SeverityOkBelowLines(c, hp, g) ==
    IF RGe(c, R(8, 10)) \/ RGe(hp, R(85, 100)) \/ RGe(g, R(1, 10))
    THEN "critical" ELSE "ok"

\* Severity without the CPU line
SeverityNoCpu(c, hp, g) ==
    IF RGe(hp, R(85, 100)) \/ RGe(g, R(1, 10)) THEN "critical" ELSE "warning"

\* line 110
Severity(c, hp, g) ==
    IF RGe(c, R(8, 10)) \/ RGe(hp, R(85, 100)) \/ RGe(g, R(1, 10))
    THEN "critical" ELSE "warning"

\* line 112
PrimaryFunction(funcs) == IF funcs # <<>> THEN funcs[1].function ELSE None

\* x or default, for a function name
OrElse(x, dflt) == IF x = None \/ x = <<>> THEN dflt ELSE x

\* lines 114-124: the template chosen and what is interpolated in it
ActionFor(verdict, primary_function, mem_top, g, hp, avg_lat, pyro_name) ==
    IF verdict = "cpu-bound"
    THEN [template |-> "Optimize {} -- see CPU flame graph in Pyroscope",
          fn |-> OrElse(primary_function, <<"top CPU function">>), num |-> Zero]
    ELSE IF verdict = "gc-bound"
    THEN [template |-> "Reduce allocations in {} -- GC rate {:.3f} s/s",
          fn |-> IF mem_top # <<>> THEN mem_top[1].function ELSE <<"top allocator">>,
          num |-> g]
    ELSE IF verdict = "memory-pressure"
    THEN [template |-> "Heap at {:.0%} -- check for leaks in allocation flame graph, consider increasing heap",
          fn |-> None, num |-> hp]
    ELSE IF verdict = "lock-bound"
    THEN [template |-> "Reduce lock scope in {} -- see mutex flame graph",
          fn |-> OrElse(primary_function, <<"contended method">>), num |-> Zero]
    ELSE IF verdict = "io-bound"
    THEN [template |-> "Avg latency {:.0f}ms with low CPU -- check downstream dependencies, connection pools, timeouts",
          fn |-> None, num |-> avg_lat]
    ELSE [template |-> "Investigate with: bash scripts/diagnose.sh --service {}",
          fn |-> pyro_name, num |-> Zero]

NoAction == [template |-> "No action needed", fn |-> None, num |-> Zero]

\* Classify with the severity line moved out of the else branch
ClassifySeverityAlways(signals, c, hp, g, avg_lat, mem_top, pyro_name) ==
    IF signals = <<>>
    THEN [verdict |-> "healthy", severity |-> Severity(c, hp, g),
          primary_function |-> None, action |-> NoAction]
    ELSE LET primary == signals[1]
             pf == PrimaryFunction(primary.funcs)
         IN  [verdict |-> primary.kind,
              severity |-> Severity(c, hp, g),
              primary_function |-> pf,
              action |-> ActionFor(primary.kind, pf, mem_top, g, hp, avg_lat, pyro_name)]

\* Classify with the primary function taken from the first signal that has
\* a hotspot
ClassifyAnyHotspot(signals, c, hp, g, avg_lat, mem_top, pyro_name) ==
    IF signals = <<>>
    THEN [verdict |-> "healthy", severity |-> "ok", primary_function |-> None,
          action |-> NoAction]
    ELSE LET primary == signals[1]
             HasFuncs(sig) == sig.funcs # <<>>
             with == SelectSeq(signals, HasFuncs)
             pf == IF with = <<>> THEN None ELSE PrimaryFunction(with[1].funcs)
         IN  [verdict |-> primary.kind,
              severity |-> Severity(c, hp, g),
              primary_function |-> pf,
              action |-> ActionFor(primary.kind, pf, mem_top, g, hp, avg_lat, pyro_name)]

\* lines 102-124
Classify(signals, c, hp, g, avg_lat, mem_top, pyro_name) ==
    IF signals = <<>>
    THEN [verdict |-> "healthy", severity |-> "ok", primary_function |-> None,
          action |-> NoAction]
    ELSE LET primary == signals[1]
             pf == PrimaryFunction(primary.funcs)
         IN  [verdict |-> primary.kind,
              severity |-> Severity(c, hp, g),
              primary_function |-> pf,
              action |-> ActionFor(primary.kind, pf, mem_top, g, hp, avg_lat, pyro_name)]

\* seq[:1]
FirstOnly(seq) == IF seq = <<>> THEN <<>> ELSE <<seq[1]>>

\* lines 68-145: one iteration of analyze's loop, as the locals it leaves
LoopBody(svc, sn, p, pyro_ok, th) ==
    LET pyro_name == Get(SVC_MAP, svc, svc)
        c  == Get(sn.cpu, svc, Zero)
        hu == Get(sn.heap_used, svc, Zero)
        hm == Get(sn.heap_max, svc, Zero)
        hp == HeapPct(hu, hm)
        g  == Get(sn.gc, svc, Zero)
        t  == Trunc(Get(sn.threads, svc, Zero))
        inst == Inst(svc)
        rr == Get(sn.req_rate, inst, Get(sn.req_rate, svc, Zero))
        er == Get(sn.err_rate, inst, Get(sn.err_rate, svc, Zero))
        ls == Get(sn.lat_sum, inst, Get(sn.lat_sum, svc, Zero))
        lc == Get(sn.lat_count, inst, Get(sn.lat_count, svc, Zero))
        avg_lat == AvgLat(ls, lc)
        err_pct == ErrPct(er, rr)
        cpu_top == PyroTop(p, pyro_ok, pyro_name, CPU_PROFILE)
        mem_top == PyroTop(p, pyro_ok, pyro_name, MEM_PROFILE)
        mutex_top == PyroTop(p, pyro_ok, pyro_name, MUTEX_PROFILE)
        signals == Signals(c, g, hp, avg_lat, cpu_top, mem_top, mutex_top, th)
        cl == Classify(signals, c, hp, g, avg_lat, mem_top, pyro_name)
    IN  [svc |-> svc, c |-> c, hu |-> hu, hm |-> hm, hp |-> hp, g |-> g, t |-> t,
         rr |-> rr, er |-> er, ls |-> ls, lc |-> lc,
         avg_lat |-> avg_lat, err_pct |-> err_pct,
         cpu_top |-> cpu_top, mem_top |-> mem_top, mutex_top |-> mutex_top,
         signals |-> signals,
         result |->
            [service |-> svc, pyroscope_name |-> pyro_name,
             verdict |-> cl.verdict, severity |-> cl.severity,
             metrics |-> [cpu_rate |-> RoundTo(c, 3), heap_pct |-> RoundTo(hp, 3),
                          gc_rate |-> RoundTo(g, 4), threads |-> t,
                          req_per_sec |-> RoundTo(rr, 1),
                          err_pct |-> RoundTo(err_pct, 1),
                          avg_latency_ms |-> RoundTo(avg_lat, 1)],
             top_cpu |-> FirstOnly(cpu_top), top_alloc |-> FirstOnly(mem_top),
             top_mutex |-> FirstOnly(mutex_top),
             primary_function |-> cl.primary_function,
             action |-> cl.action]]

\* BnRank with the keys of the upper-case vocabulary
BnRankUpperCase(sev) ==
    IF sev = "CRITICAL" THEN 0 ELSE IF sev = "WARNING" THEN 1
    ELSE IF sev = "OK" THEN 2 ELSE 9

\* order.get(severity, 9) of analyze
BnRank(sev) ==
    IF sev = "critical" THEN 0 ELSE IF sev = "warning" THEN 1
    ELSE IF sev = "ok" THEN 2 ELSE 9

\* < on the (rank, service) tuples the sorts use as keys
KeyLess(k1, k2) == k1[1] < k2[1] \/ (k1[1] = k2[1] /\ StrLess(k1[2], k2[2]))

\* list.sort(key=...): a stable sort, here by insertion from the left
RECURSIVE InsertByKey(_, _, _, _)
InsertByKey(sorted, keys, x, k) ==
    IF sorted = <<>> THEN [items |-> <<x>>, keys |-> <<k>>]
    ELSE IF KeyLess(k, Head(keys))
         THEN [items |-> <<x>> \o sorted, keys |-> <<k>> \o keys]
         ELSE LET rest == InsertByKey(Tail(sorted), Tail(keys), x, k)
              IN  [items |-> <<Head(sorted)>> \o rest.items,
                   keys |-> <<Head(keys)>> \o rest.keys]

RECURSIVE SortFrom(_, _, _, _)
SortFrom(items, keys, i, acc) ==
    IF i > Len(items) THEN acc.items
    ELSE SortFrom(items, keys, i + 1, InsertByKey(acc.items, acc.keys, items[i], keys[i]))

SortByKey(items, keys) == SortFrom(items, keys, 1, [items |-> <<>>, keys |-> <<>>])

BnSortKey(r) == <<BnRank(r.severity), r.service>>

\* lines 147-148
BnSort(rs) == SortByKey(rs, [i \in DOMAIN rs |-> BnSortKey(rs[i])])

\* sum(1 for r in results if ...)
CountSeverity(rs, sev) == Cardinality({i \in DOMAIN rs : rs[i].severity = sev})

CountVerdict(rs, v) == Cardinality({i \in DOMAIN rs : rs[i].verdict = v})

\* main, lines 228-238
Summary(rs) ==
    [total |-> Len(rs), critical |-> CountSeverity(rs, "critical"),
     warning |-> CountSeverity(rs, "warning"), healthy |-> CountVerdict(rs, "healthy")]

(***************************************************************************)
(* jvm_health.py                                                           *)
(***************************************************************************)
THRESHOLDS ==
    [cpu_rate |-> [warn |-> R(5, 10),   crit |-> R(8, 10)],
     heap_pct |-> [warn |-> R(70, 100), crit |-> R(85, 100)],
     gc_rate  |-> [warn |-> R(3, 100),  crit |-> R(10, 100)],
     threads  |-> [warn |-> R(50, 1),   crit |-> R(100, 1)]]

\* lines 45-48: heap_pct holds a service only when its heap_max is > 0
JvmHeapPct(heap_used, heap_max) ==
    [svc \in {s \in DOMAIN heap_used : s \in DOMAIN heap_max /\ RGt(heap_max[s], Zero)}
        |-> RDiv(heap_used[svc], heap_max[svc])]

\* lines 50-52
JvmAllSvcs(sn, heap_pct) ==
    Sorted(DOMAIN sn.cpu \cup DOMAIN heap_pct \cup DOMAIN sn.gc \cup DOMAIN sn.threads)

\* one (level, message) pair; the message is kept as what is formatted in it
Issue(level, metric, value, cutoff) ==
    [level |-> level, metric |-> metric, value |-> value, cutoff |-> cutoff]

\* JvmCheck with a value equal to the crit cutoff not yet critical
JvmCheckStrictCrit(metric, value, t) ==
    IF RGt(value, t.crit) THEN <<Issue("CRITICAL", metric, value, t.crit)>>
    ELSE IF RGe(value, t.warn) THEN <<Issue("WARNING", metric, value, t.warn)>>
    ELSE <<>>

\* the if/elif pair of one metric
JvmCheck(metric, value, t) ==
    IF RGe(value, t.crit) THEN <<Issue("CRITICAL", metric, value, t.crit)>>
    ELSE IF RGe(value, t.warn) THEN <<Issue("WARNING", metric, value, t.warn)>>
    ELSE <<>>

\* lines 99-103
JvmSeverity(issues) ==
    IF \E i \in DOMAIN issues : issues[i].level = "CRITICAL" THEN "CRITICAL"
    ELSE IF \E i \in DOMAIN issues : issues[i].level = "WARNING" THEN "WARNING"
    ELSE "OK"

\* x / 1024 / 1024
ToMb(x) == RDiv(RDiv(x, R(1024, 1)), R(1024, 1))

\* lines 62-111: one iteration of the loop
JvmEvaluate(svc, sn, heap_pct) ==
    LET cpu == Get(sn.cpu, svc, Zero)
        hp  == Get(heap_pct, svc, Zero)
        gc  == Get(sn.gc, svc, Zero)
        th  == Get(sn.threads, svc, Zero)
        issues == JvmCheck("CPU", cpu, THRESHOLDS.cpu_rate)
                  \o JvmCheck("Heap", hp, THRESHOLDS.heap_pct)
                  \o JvmCheck("GC", gc, THRESHOLDS.gc_rate)
                  \o JvmCheck("Threads", th, THRESHOLDS.threads)
    IN  [service |-> svc, pyroscope_name |-> Get(SVC_MAP, svc, svc),
         severity |-> JvmSeverity(issues),
         metrics |-> [cpu_rate |-> RoundTo(cpu, 3), heap_pct |-> RoundTo(hp, 3),
                      heap_used_mb |-> RoundTo(ToMb(Get(sn.heap_used, svc, Zero)), 1),
                      heap_max_mb |-> RoundTo(ToMb(Get(sn.heap_max, svc, Zero)), 1),
                      gc_rate |-> RoundTo(gc, 4), threads |-> Trunc(th)],
         issues |-> issues]

\* order.get(severity, 9) of jvm_health and of collect_health
UpperRank(sev) ==
    IF sev = "CRITICAL" THEN 0 ELSE IF sev = "WARNING" THEN 1
    ELSE IF sev = "OK" THEN 2 ELSE 9

JvmSortKey(r) == <<UpperRank(r.severity), r.service>>

\* lines 113-114
JvmSort(rs) == SortByKey(rs, [i \in DOMAIN rs |-> JvmSortKey(rs[i])])

(***************************************************************************)
(* diagnose.py                                                             *)
(***************************************************************************)
\* severity_rank of collect_health
SeverityRank(st) == IF st = "OK" THEN 0 ELSE IF st = "WARNING" THEN 1 ELSE 2

\* max(status, "WARNING", key=severity_rank): the first of the largest
MaxWarning(status) ==
    IF SeverityRank("WARNING") > SeverityRank(status) THEN "WARNING" ELSE status

\* lines 48-63: status and issues after the three if/elif pairs
DgStatus(c, hp_pct, g) ==
    LET s1 == IF RGe(c, R(8, 10)) THEN [status |-> "CRITICAL", issues |-> <<"CPU critical">>]
              ELSE IF RGe(c, R(5, 10)) THEN [status |-> "WARNING", issues |-> <<"CPU warning">>]
              ELSE [status |-> "OK", issues |-> <<>>]
        s2 == IF RGe(hp_pct, R(85, 100))
              THEN [status |-> "CRITICAL", issues |-> Append(s1.issues, "Heap critical")]
              ELSE IF RGe(hp_pct, R(7, 10))
              THEN [status |-> MaxWarning(s1.status), issues |-> Append(s1.issues, "Heap warning")]
              ELSE s1
    IN  IF RGe(g, R(1, 10))
        THEN [status |-> "CRITICAL", issues |-> Append(s2.issues, "GC critical")]
        ELSE IF RGe(g, R(3, 100))
        THEN [status |-> MaxWarning(s2.status), issues |-> Append(s2.issues, "GC warning")]
        ELSE s2

\* lines 41-76: one iteration of collect_health's loop
DgEvaluate(svc, sn) ==
    LET hp_used == Get(sn.heap_used, svc, Zero)
        hp_max  == Get(sn.heap_max, svc, Zero)
        hp_pct  == HeapPct(hp_used, hp_max)
        c == Get(sn.cpu, svc, Zero)
        g == Get(sn.gc, svc, Zero)
        t == Trunc(Get(sn.threads, svc, Zero))
        st == DgStatus(c, hp_pct, g)
    IN  [service |-> svc, pyroscope_name |-> Get(SVC_MAP, svc, svc),
         status |-> st.status,
         cpu_rate |-> RoundTo(c, 3),
         heap_used_mb |-> RoundTo(ToMb(hp_used), 1),
         heap_max_mb |-> RoundTo(ToMb(hp_max), 1),
         heap_pct |-> RoundTo(hp_pct, 3),
         gc_rate |-> RoundTo(g, 4), threads |-> t, issues |-> st.issues]

DgSortKey(r) == <<UpperRank(r.status), r.service>>

\* lines 78-79
DgSort(rs) == SortByKey(rs, [i \in DOMAIN rs |-> DgSortKey(rs[i])])

\* inst.split(":")[0]
BeforeColon(inst) == <<inst[1], "">>

\* [i for i in instances if i.split(":")[0] == container_name]
RECURSIVE FilterContainer(_, _)
FilterContainer(seq, container_name) ==
    IF seq = <<>> THEN <<>>
    ELSE (IF BeforeColon(Head(seq)) = container_name THEN <<Head(seq)>> ELSE <<>>)
         \o FilterContainer(Tail(seq), container_name)

\* collect_http, lines 104-107
DgInstances(sn, service_filter) ==
    LET all == Sorted(DOMAIN sn.req_rate \cup DOMAIN sn.lat_sum) IN
    IF service_filter # None
    THEN FilterContainer(all, Get(REVERSE_MAP, service_filter, service_filter))
    ELSE all

\* collect_http, lines 111-124: one iteration of the loop
DgHttpEntry(inst, sn) ==
    LET rr == Get(sn.req_rate, inst, Zero)
        er == Get(sn.err_rate, inst, Zero)
        ls == Get(sn.lat_sum, inst, Zero)
        lc == Get(sn.lat_count, inst, Zero)
        avg_lat == IF RGt(lc, Zero) THEN RDiv(ls, lc) ELSE Zero
    IN  [instance |-> inst, service |-> BeforeColon(inst),
         req_per_sec |-> RoundTo(rr, 2), err_per_sec |-> RoundTo(er, 4),
         err_pct |-> IF RGt(rr, Zero) THEN RoundTo(RMulInt(RDiv(er, rr), 100), 2) ELSE Zero,
         avg_latency_ms |-> RoundTo(RMulInt(avg_lat, 1000), 1)]

\* main, lines 264-270
DgPromServices(up, prom_ok, service_filter) ==
    LET all == IF prom_ok THEN Sorted(DOMAIN up) ELSE <<>> IN
    IF service_filter # None
    THEN FilterEq(all, Get(REVERSE_MAP, service_filter, service_filter))
    ELSE all

(***************************************************************************)
(* The inputs: what the backends hold and the command line                 *)
(***************************************************************************)
\* the most containers the fleet holds in the runs with several services
MaxServices == 3

\* a snapshot from a choice, per key, of no sample ({}) or one sample ({v})
DictOf(opts) ==
    [k \in {x \in DOMAIN opts : opts[x] # {}} |-> CHOOSE v \in opts[k] : TRUE]

One(k, opt) == DictOf([x \in {k} |-> opt])

CpuVals == {R(1, 10), R(3, 10), R(9, 10)}

GcOpts == {{}, {R(3, 100)}, {R(1, 10)}}

\* <<heap_used, heap_max>>
HeapCases ==
    { <<{R(75, 1)}, {}>>, <<{R(75, 1)}, {Zero}>>, <<{R(2, 1)}, {R(3, 1)}>>,
      <<{R(75, 1)}, {R(100, 1)}>>, <<{R(85, 1)}, {R(100, 1)}>> }

\* <<req_rate, err_rate>> and <<lat_sum, lat_count>>
RateCases == { <<{}, {}>>, <<{Zero}, {R(1, 1)}>>, <<{R(50, 1)}, {R(1, 1)}>> }

LatCases == { <<{}, {}>>, <<{R(1, 1)}, {Zero}>>, <<{R(1, 1)}, {R(2, 1)}>>,
              <<{R(3, 1)}, {R(4, 1)}>> }

\* the HTTP snapshots, keyed by the instance string or by the bare name
HttpCases ==
    { [key |-> Inst(Svc(1)), rate |-> r, lat |-> l] : r \in RateCases, l \in LatCases }
    \cup { [key |-> Svc(1), rate |-> <<{R(50, 1)}, {R(1, 1)}>>,
            lat |-> <<{R(3, 1)}, {R(4, 1)}>>] }

FnCpu == <<"a", "/", "C">>

FnMem == <<"a", "/", "M">>

FnLock == <<"a", ".", "L">>

TopOf(fn, pct) == <<[function |-> fn, pct |-> pct]>>

\* what Pyroscope holds for one service
Profiles(cpu_top, mem_top, mutex_top) ==
    [x \in {CPU_PROFILE, MEM_PROFILE, MUTEX_PROFILE} |->
        IF x = CPU_PROFILE THEN cpu_top
        ELSE IF x = MEM_PROFILE THEN mem_top ELSE mutex_top]

FullProfiles == Profiles(TopOf(FnCpu, R(40, 1)), TopOf(FnMem, R(30, 1)), TopOf(FnLock, R(6, 1)))

\* <<pyro_ok, the profiles of the service>>
PyroCases ==
    { <<FALSE, FullProfiles>>, <<TRUE, FullProfiles>>,
      <<TRUE, Profiles(<<>>, <<>>, <<>>)>>,
      <<TRUE, Profiles(TopOf(FnCpu, R(40, 1)), <<>>, <<>>)>>,
      <<TRUE, Profiles(<<>>, TopOf(FnMem, R(30, 1)), <<>>)>>,
      <<TRUE, Profiles(TopOf(FnCpu, R(40, 1)), TopOf(FnMem, R(30, 1)), TopOf(FnLock, R(5, 1)))>>,
      <<TRUE, Profiles(TopOf(FnCpu, R(40, 1)), TopOf(FnMem, R(30, 1)), <<>>)>>,
      <<TRUE, Profiles(<<>>, <<>>, TopOf(FnLock, R(6, 1)))>> }

Tok(k, v) == [eq |-> TRUE, k |-> k, num |-> TRUE, v |-> v]

BadTok(k) == [eq |-> TRUE, k |-> k, num |-> FALSE, v |-> Zero]

\* the --threshold strings of the runs with one service
ThresholdStrs ==
    { <<>>,
      <<Tok("cpu", R(95, 100))>>,
      <<Tok("gc", R(5, 10)), Tok("heap_pct", R(9, 10))>>,
      <<Tok("latency_ms", R(1000, 1))>> }

\* the --threshold strings of the runs with several services
OddThresholdStrs ==
    { <<>>,
      <<BadTok("cpu")>>,
      <<BadTok("bogus"), Tok("cpu", R(5, 10)), Tok("cpu", R(95, 100))>>,
      <<[eq |-> FALSE, k |-> "cpu", num |-> FALSE, v |-> Zero]>> }

\* Prometheus holding one service, Svc(1), with every metric of the resolver
RichProm ==
    { [cpu |-> One(Svc(1), {c}),
       heap_used |-> One(Svc(1), h[1]), heap_max |-> One(Svc(1), h[2]),
       gc |-> One(Svc(1), g), threads |-> One(Svc(1), {R(121, 2)}),
       req_rate |-> One(ht.key, ht.rate[1]), err_rate |-> One(ht.key, ht.rate[2]),
       lat_sum |-> One(ht.key, ht.lat[1]), lat_count |-> One(ht.key, ht.lat[2]),
       up |-> One(Svc(1), {R(1, 1)})]
      : c \in CpuVals, h \in HeapCases, g \in GcOpts, ht \in HttpCases }

Fleet == {Svc(i) : i \in 1..MaxServices}

\* what one container of a fleet reports
FleetKinds == {"none", "low", "warn", "crit", "nocpu"}

FleetCpu(kind) ==
    IF kind = "low" THEN {R(1, 10)} ELSE IF kind = "warn" THEN {R(5, 10)}
    ELSE IF kind = "crit" THEN {R(9, 10)} ELSE {}

\* Prometheus holding a fleet: a container reports a CPU rate, or only its
\* GC rate and thread count ("nocpu"), or nothing
FleetProm ==
    { [cpu |-> DictOf([s \in Fleet |-> FleetCpu(k[s])]),
       heap_used |-> <<>>, heap_max |-> <<>>,
       gc |-> DictOf([s \in Fleet |-> IF k[s] = "nocpu" THEN {R(1, 10)} ELSE {}]),
       threads |-> DictOf([s \in Fleet |-> IF k[s] = "nocpu" THEN {R(50, 1)} ELSE {}]),
       req_rate |-> <<>>, err_rate |-> <<>>, lat_sum |-> <<>>, lat_count |-> <<>>,
       up |-> DictOf([s \in Fleet |-> IF k[s] = "none" THEN {} ELSE {R(1, 1)}])]
      : k \in [Fleet -> FleetKinds] }

\* Prometheus holding one service with the four metrics of the health check
HealthProm ==
    { [cpu |-> One(Svc(1), c),
       heap_used |-> One(Svc(1), h[1]), heap_max |-> One(Svc(1), h[2]),
       gc |-> One(Svc(1), g), threads |-> One(Svc(1), t),
       req_rate |-> <<>>, err_rate |-> <<>>, lat_sum |-> <<>>, lat_count |-> <<>>,
       up |-> One(Svc(1), {R(1, 1)})]
      : c \in {{}, {R(1, 10)}, {R(5, 10)}, {R(8, 10)}},
        h \in HeapCases \cup {<<{}, {R(100, 1)}>>, <<{R(70, 1)}, {R(100, 1)}>>},
        g \in GcOpts,
        t \in {{}, {R(50, 1)}, {R(201, 2)}} }

Args(prom_ok, pyro_ok, service_filter, threshold_str) ==
    [prom_ok |-> prom_ok, pyro_ok |-> pyro_ok, service_filter |-> service_filter,
     threshold_str |-> threshold_str]

\* the locals before the script sets them
Idle ==
    /\ thresholds = <<>>
    /\ snap = NoSnapshots
    /\ services = <<>>
    /\ results = <<>>
    /\ loc = <<>>
    /\ report = <<>>
    /\ fg = <<>>
    /\ out = <<>>

InitBottleneck ==
    /\ prog = "bottleneck"
    /\ pc = "main"
    /\ stdin = <<>>
    /\ \/ /\ prom \in RichProm
          /\ \E pr \in PyroCases, ts \in ThresholdStrs :
                /\ pyro = One(Svc(1), {pr[2]})
                /\ args = Args(TRUE, pr[1], None, ts)
       \/ /\ prom \in FleetProm
          /\ pyro = <<>>
          /\ \E ok \in BOOLEAN, f \in {None, Svc(2)}, ts \in OddThresholdStrs :
                args = Args(ok, TRUE, f, ts)
    /\ Idle

InitJvmHealth ==
    /\ prog = "jvm_health"
    /\ pc = "main"
    /\ stdin = <<>>
    /\ prom \in HealthProm \cup FleetProm
    /\ pyro = <<>>
    /\ args = Args(TRUE, TRUE, None, <<>>)
    /\ Idle

InitDiagnose ==
    /\ prog = "diagnose"
    /\ pc = "main"
    /\ stdin = <<>>
    /\ prom \in HealthProm \cup FleetProm \cup RichProm
    /\ pyro = <<>>
    /\ \E ok \in BOOLEAN, f \in {None, Svc(2)} : args = Args(ok, TRUE, f, <<>>)
    /\ Idle

Init == InitBottleneck \/ InitJvmHealth \/ InitDiagnose

(***************************************************************************)
(* parse_flamegraph.py                                                     *)
(***************************************************************************)
\* lines 23-26; a string is the sequence of its characters
JVM_PREFIXES ==
    << <<"j", "a", "v", "a", ".">>,
       <<"j", "a", "v", "a", "x", ".">>,
       <<"j", "d", "k", ".">>,
       <<"s", "u", "n", ".">>,
       <<"c", "o", "m", ".", "s", "u", "n", ".">>,
       <<"o", "r", "g", ".", "g", "r", "a", "a", "l", "v", "m", ".">>,
       <<"j", "d", "k", ".", "i", "n", "t", "e", "r", "n", "a", "l", ".">> >>

\* lines 28-33
LIB_PREFIXES ==
    << <<"i", "o", ".", "v", "e", "r", "t", "x", ".">>,
       <<"i", "o", ".", "n", "e", "t", "t", "y", ".">>,
       <<"i", "o", ".", "p", "y", "r", "o", "s", "c", "o", "p", "e", ".">>,
       <<"o", "r", "g", ".", "a", "p", "a", "c", "h", "e", ".">>,
       <<"o", "r", "g", ".", "s", "l", "f", "4", "j", ".">>,
       <<"c", "h", ".", "q", "o", "s", ".">>,
       <<"c", "o", "m", ".", "f", "a", "s", "t", "e", "r", "x", "m", "l", ".">>,
       <<"o", "r", "g", ".", "j", "b", "o", "s", "s", ".">>,
       <<"o", "n", "e", ".", "p", "r", "o", "f", "i", "l", "e", "r", ".">> >>

\* str.startswith
StartsWith(s, p) == Len(p) <= Len(s) /\ SubSeq(s, 1, Len(p)) = p

\* lines 36-38
normalize(name) == [i \in DOMAIN name |-> IF name[i] = "/" THEN "." ELSE name[i]]

\* classify with the JVM prefixes tried before the application prefix
classifyJvmFirst(name, app_prefix) ==
    LET n == normalize(name) IN
    IF \E i \in DOMAIN JVM_PREFIXES : StartsWith(n, JVM_PREFIXES[i]) THEN "jvm"
    ELSE IF StartsWith(n, app_prefix) THEN "app"
    ELSE IF \E i \in DOMAIN LIB_PREFIXES : StartsWith(n, LIB_PREFIXES[i]) THEN "lib"
    ELSE "other"

\* lines 41-51
classify(name, app_prefix) ==
    LET n == normalize(name) IN
    IF StartsWith(n, app_prefix) THEN "app"
    ELSE IF \E i \in DOMAIN JVM_PREFIXES : StartsWith(n, JVM_PREFIXES[i]) THEN "jvm"
    ELSE IF \E i \in DOMAIN LIB_PREFIXES : StartsWith(n, LIB_PREFIXES[i]) THEN "lib"
    ELSE "other"

\* lines 56-61: the number that is printed and the text after it
format_val(val, unit) ==
    IF unit = "bytes" THEN [num |-> RoundTo(R(val, 1048576), 1), suffix |-> " MB"]
    ELSE IF unit = "count" THEN [num |-> R(val, 1), suffix |-> " events"]
    ELSE [num |-> RoundTo(R(val, 1000000000), 2), suffix |-> "s"]

\* a printed line
Line(kind, rank, name, val, pct, cat, count) ==
    [kind |-> kind, rank |-> rank, name |-> name, val |-> val, pct |-> pct,
     cat |-> cat, count |-> count]

Text(kind) == Line(kind, 0, <<>>, <<>>, Zero, "", 0)

\* items[:top_n] for top_n >= 0
Take(items, top_n) ==
    SubSeq(items, 1, IF top_n < Len(items) THEN top_n ELSE Len(items))

\* lines 64-72: one line per item; the display name (lines 69-70) splits the
\* name at its last dot and joins the two parts with a dot again
print_ranked(items, top_n, total, unit, app_prefix) ==
    LET shown == Take(items, top_n) IN
    [rank \in DOMAIN shown |->
        Line("rank", rank, shown[rank][1], format_val(shown[rank][2], unit),
             RoundTo(RMulInt(R(shown[rank][2], total), 100), 1),
             classify(shown[rank][1], app_prefix), 0)]

\* a dict of name -> value in insertion order: a sequence of <<name, value>>
MapHas(m, k) == \E i \in DOMAIN m : m[i][1] = k

MapGet(m, k, dflt) ==
    IF MapHas(m, k) THEN m[CHOOSE i \in DOMAIN m : m[i][1] = k][2] ELSE dflt

MapSet(m, k, v) ==
    IF MapHas(m, k)
    THEN [i \in DOMAIN m |-> IF m[i][1] = k THEN <<k, v>> ELSE m[i]]
    ELSE Append(m, <<k, v>>)

\* names[name_idx] where Python accepts the index: a negative one counts
\* from the end
PyAt(seq, idx) == IF idx >= 0 THEN seq[idx + 1] ELSE seq[Len(seq) + idx + 1]

\* names[name_idx] raises IndexError
PyIndexError(seq, idx) == idx >= Len(seq) \/ idx < 0 - Len(seq)

\* lines 99-105: the while loop over one level, from Python index i on
RECURSIVE DecodeFrom(_, _, _, _)
DecodeFrom(level, i, names, self_map) ==
    IF ~(i + 3 < Len(level)) THEN [raised |-> FALSE, self_map |-> self_map]
    ELSE LET name_idx == level[i + 3 + 1]
             self_val == level[i + 2 + 1]
         IN  IF name_idx < Len(names) /\ self_val > 0
             THEN IF PyIndexError(names, name_idx)
                  THEN [raised |-> TRUE, self_map |-> self_map]
                  ELSE DecodeFrom(level, i + 4, names,
                           MapSet(self_map, PyAt(names, name_idx),
                                  MapGet(self_map, PyAt(names, name_idx), 0) + self_val))
             ELSE DecodeFrom(level, i + 4, names, self_map)

\* sorted(..., key=lambda x: -x[1]): stable, by insertion from the left
RECURSIVE InsertDesc(_, _)
InsertDesc(sorted, x) ==
    IF sorted = <<>> THEN <<x>>
    ELSE IF x[2] > Head(sorted)[2] THEN <<x>> \o sorted
    ELSE <<Head(sorted)>> \o InsertDesc(Tail(sorted), x)

RECURSIVE SortDescFrom(_, _, _)
SortDescFrom(items, i, acc) ==
    IF i > Len(items) THEN acc ELSE SortDescFrom(items, i + 1, InsertDesc(acc, items[i]))

\* line 107
AllSorted(self_map) == SortDescFrom(self_map, 1, <<>>)

\* [(n, v) for n, v in all_sorted if normalize(n).startswith(prefix)]
RECURSIVE FilterPrefix(_, _)
FilterPrefix(items, prefix) ==
    IF items = <<>> THEN <<>>
    ELSE IF StartsWith(normalize(Head(items)[1]), prefix)
         THEN <<Head(items)>> \o FilterPrefix(Tail(items), prefix)
         ELSE FilterPrefix(Tail(items), prefix)

\* lines 131-134
RECURSIVE CatTotals(_, _, _)
CatTotals(self_map, app_prefix, acc) ==
    IF self_map = <<>> THEN acc
    ELSE LET cat == classify(Head(self_map)[1], app_prefix)
         IN  CatTotals(Tail(self_map), app_prefix,
                       MapSet(acc, cat, MapGet(acc, cat, 0) + Head(self_map)[2]))

RECURSIVE SumValues(_)
SumValues(m) == IF m = <<>> THEN 0 ELSE Head(m)[2] + SumValues(Tail(m))

\* lines 142-148
RECURSIVE CategoryRows(_, _, _, _, _, _)
CategoryRows(cats, cat_totals, self_map, total, unit, app_prefix) ==
    IF cats = <<>> THEN <<>>
    ELSE LET cat == Head(cats)
             rest == CategoryRows(Tail(cats), cat_totals, self_map, total, unit, app_prefix)
         IN  IF MapHas(cat_totals, cat)
             THEN LET v == MapGet(cat_totals, cat, 0)
                      count == Cardinality({i \in DOMAIN self_map :
                                              classify(self_map[i][1], app_prefix) = cat})
                  IN  <<Line("category", 0, <<>>, format_val(v, unit),
                             RoundTo(RMulInt(R(v, total), 100), 1), cat, count)>> \o rest
             ELSE rest

\* lines 136-149
CategorySummary(self_map, total, unit, app_prefix) ==
    LET cat_totals == CatTotals(self_map, app_prefix, <<>>) IN
    IF SumValues(cat_totals) > 0
    THEN <<Text("blank"), Text("category_header"), Text("category_rule")>>
         \o CategoryRows(<<"app", "lib", "jvm", "other">>, cat_totals, self_map,
                         total, unit, app_prefix)
         \o <<Text("blank")>>
    ELSE <<>>

\* lines 107-162: what main prints after the decoding
FgOutput(self_map, total, a) ==
    LET all_sorted == AllSorted(self_map) IN
    IF a.user_code
    THEN LET filtered == FilterPrefix(all_sorted, a.app_prefix) IN
         IF filtered = <<>> THEN <<Line("no_app_code", 0, a.app_prefix, <<>>, Zero, "", 0)>>
         ELSE print_ranked(filtered, a.top, total, a.unit, a.app_prefix)
    ELSE IF a.filter_prefix # <<>>
    THEN LET filtered == FilterPrefix(all_sorted, a.filter_prefix) IN
         IF filtered = <<>> THEN <<Line("no_match", 0, a.filter_prefix, <<>>, Zero, "", 0)>>
         ELSE print_ranked(filtered, a.top, total, a.unit, a.app_prefix)
    ELSE LET app_sorted == FilterPrefix(all_sorted, a.app_prefix)
             app_top == IF a.top < Len(app_sorted) THEN a.top ELSE Len(app_sorted)
         IN  CategorySummary(self_map, total, a.unit, a.app_prefix)
             \o <<Line("all_header", 0, <<>>, <<>>, Zero, "", a.top)>>
             \o print_ranked(all_sorted, a.top, total, a.unit, a.app_prefix)
             \o IF app_sorted # <<>>
                THEN <<Text("blank"), Line("app_header", 0, <<>>, <<>>, Zero, "", app_top)>>
                     \o print_ranked(app_sorted, app_top, total, a.unit, a.app_prefix)
                ELSE <<>>

\* function names of the four categories
NameApp == <<"c", "o", "m", "/", "e", "x", "a", "m", "p", "l", "e", "/", "A">>

NameJvm == <<"j", "a", "v", "a", ".", "X">>

NameLib == <<"i", "o", "/", "n", "e", "t", "t", "y", "/", "Y">>

\* NameJvm in the slash-separated form
NameJvmSlash == <<"j", "a", "v", "a", "/", "X">>

NameOther == <<"m", "a", "i", "n">>

\* line 81
DefaultAppPrefix == <<"c", "o", "m", ".", "e", "x", "a", "m", "p", "l", "e", ".">>

JavaPrefix == <<"j", "a", "v", "a", ".">>

(***************************************************************************)
(* The steps of bottleneck.py                                              *)
(***************************************************************************)
\* main, line 222
BnParseThresholds ==
    /\ prog = "bottleneck" /\ pc = "main"
    /\ LET r == parse_thresholds(args.threshold_str) IN
          IF r.raised
          THEN /\ pc' = "ValueError"
               /\ UNCHANGED thresholds
          ELSE /\ pc' = "analyze"
               /\ thresholds' = r.value
    /\ UNCHANGED <<prog, args, prom, pyro, snap, services, results, loc, report,
                   stdin, fg, out>>

\* analyze, lines 51-66
BnFetch ==
    /\ prog = "bottleneck" /\ pc = "analyze"
    /\ snap' = BnSnapshots(prom, args.prom_ok)
    /\ services' = BnServices(snap'.cpu, args.service_filter)
    /\ results' = <<>>
    /\ pc' = "loop"
    /\ UNCHANGED <<prog, args, prom, pyro, thresholds, loc, report, stdin, fg, out>>

\* analyze, lines 67-145: the next service of the loop
BnLoopBody ==
    /\ prog = "bottleneck" /\ pc = "loop"
    /\ Len(results) < Len(services)
    /\ loc' = LoopBody(services[Len(results) + 1], snap, pyro, args.pyro_ok, thresholds)
    /\ results' = Append(results, loc'.result)
    /\ UNCHANGED <<prog, pc, args, prom, pyro, thresholds, snap, services, report,
                   stdin, fg, out>>

\* analyze, lines 147-149: the loop is over
BnReturn ==
    /\ prog = "bottleneck" /\ pc = "loop"
    /\ Len(results) = Len(services)
    /\ results' = BnSort(results)
    /\ pc' = "report"
    /\ UNCHANGED <<prog, args, prom, pyro, thresholds, snap, services, loc, report,
                   stdin, fg, out>>

\* main, lines 228-243
BnReport ==
    /\ prog = "bottleneck" /\ pc = "report"
    /\ report' = Summary(results)
    /\ pc' = "done"
    /\ UNCHANGED <<prog, args, prom, pyro, thresholds, snap, services, results, loc,
                   stdin, fg, out>>

(***************************************************************************)
(* The steps of jvm_health.py                                              *)
(***************************************************************************)
\* main, lines 39-57
JvmFetch ==
    /\ prog = "jvm_health" /\ pc = "main"
    /\ LET sn == [NoSnapshots EXCEPT !.cpu = prom.cpu, !.heap_used = prom.heap_used,
                                     !.heap_max = prom.heap_max, !.gc = prom.gc,
                                     !.threads = prom.threads]
           heap_pct == JvmHeapPct(sn.heap_used, sn.heap_max)
       IN  /\ snap' = sn
           /\ loc' = [heap_pct |-> heap_pct]
           /\ services' = JvmAllSvcs(sn, heap_pct)
    /\ pc' = IF services' = <<>> THEN "exit1" ELSE "loop"
    /\ UNCHANGED <<prog, args, prom, pyro, thresholds, results, report, stdin, fg, out>>

\* main, lines 59-114
JvmLoop ==
    /\ prog = "jvm_health" /\ pc = "loop"
    /\ results' = JvmSort([i \in DOMAIN services |->
                              JvmEvaluate(services[i], snap, loc.heap_pct)])
    /\ pc' = "print"
    /\ UNCHANGED <<prog, args, prom, pyro, thresholds, snap, services, loc, report,
                   stdin, fg, out>>

\* main, lines 116-157
JvmPrint ==
    /\ prog = "jvm_health" /\ pc = "print"
    /\ report' = [total |-> Len(results),
                  critical |-> CountSeverity(results, "CRITICAL"),
                  warning |-> CountSeverity(results, "WARNING"),
                  healthy |-> CountSeverity(results, "OK")]
    /\ pc' = "done"
    /\ UNCHANGED <<prog, args, prom, pyro, thresholds, snap, services, results, loc,
                   stdin, fg, out>>

(***************************************************************************)
(* The steps of diagnose.py                                                *)
(***************************************************************************)
\* main, lines 264-271
DgDiscover ==
    /\ prog = "diagnose" /\ pc = "main"
    /\ services' = DgPromServices(prom.up, args.prom_ok, args.service_filter)
    /\ pc' = "collect_health"
    /\ UNCHANGED <<prog, args, prom, pyro, thresholds, snap, results, loc, report,
                   stdin, fg, out>>

\* collect_health, lines 32-80
DgCollectHealth ==
    /\ prog = "diagnose" /\ pc = "collect_health"
    /\ snap' = [NoSnapshots EXCEPT !.cpu = prom.cpu, !.heap_used = prom.heap_used,
                                   !.heap_max = prom.heap_max, !.gc = prom.gc,
                                   !.threads = prom.threads]
    /\ results' = DgSort([i \in DOMAIN services |-> DgEvaluate(services[i], snap')])
    /\ pc' = "collect_http"
    /\ UNCHANGED <<prog, args, prom, pyro, thresholds, services, loc, report,
                   stdin, fg, out>>

\* collect_http, lines 84-126, without the slowest endpoints
DgCollectHttp ==
    /\ prog = "diagnose" /\ pc = "collect_http"
    /\ LET sn == [snap EXCEPT !.req_rate = prom.req_rate, !.err_rate = prom.err_rate,
                              !.lat_sum = prom.lat_sum, !.lat_count = prom.lat_count]
           instances == DgInstances(sn, args.service_filter)
       IN  /\ snap' = sn
           /\ report' = [http |-> [i \in DOMAIN instances |-> DgHttpEntry(instances[i], sn)]]
    /\ pc' = "done"
    /\ UNCHANGED <<prog, args, prom, pyro, thresholds, services, results, loc,
                   stdin, fg, out>>

Next ==
    \/ BnParseThresholds \/ BnFetch \/ BnLoopBody \/ BnReturn \/ BnReport
    \/ JvmFetch \/ JvmLoop \/ JvmPrint
    \/ DgDiscover \/ DgCollectHealth \/ DgCollectHttp

Spec == Init /\ [][Next]_vars

(***************************************************************************)
(* The payloads and command lines parse_flamegraph.py is run on            *)
(***************************************************************************)
MaxLevels == 2

\* line 79
DefaultTop == 15

\* levels: complete groups of 4 (offset, total, self, name index), groups
\* with a self value of 0, name indexes past the end and below 0, and
\* levels that end in a partial group
LevelCases ==
    { <<0, 10, 100, 0>>,
      <<0, 10, 50, 0>>,
      <<0, 10, 50, 1>>,
      <<0, 10, 100, 0, 0, 10, 50, 1>>,
      <<0, 10, 50, 0, 0, 10, 50>>,
      <<0, 10, 50, 1, 7>>,
      <<0, 10>>,
      <<0, 10, 0, 0>>,
      <<0, 10, 50, 2>>,
      <<0, 10, 50, -1>>,
      <<0, 10, 50, -3>>,
      <<>> }

RECURSIVE SeqsUpTo(_, _)
SeqsUpTo(S, n) ==
    IF n = 0 THEN {<<>>}
    ELSE LET shorter == SeqsUpTo(S, n - 1)
         IN  shorter \cup {Append(s, x) : s \in shorter, x \in S}

NamesCases ==
    { <<>>, <<NameApp>>, <<NameApp, NameJvm>>, <<NameLib, NameOther>>,
      <<NameJvmSlash, NameJvm>> }

\* the JSON documents on stdin: with every key, without numTicks, without
\* levels, without names, and without the flamebearer object
Payloads ==
    {[flamebearer |-> [names |-> n, levels |-> l, numTicks |-> t]] :
        n \in NamesCases, l \in SeqsUpTo(LevelCases, MaxLevels), t \in {0, 150}}
    \cup {[flamebearer |-> [names |-> n, levels |-> <<l>>]] :
        n \in NamesCases, l \in LevelCases}
    \cup {[flamebearer |-> [names |-> n, numTicks |-> 150]] : n \in NamesCases}
    \cup {[flamebearer |-> [levels |-> <<l>>, numTicks |-> 150]] : l \in LevelCases}
    \cup {<<>>}

FgArgs(top, unit, app_prefix, user_code, filter_prefix) ==
    [top |-> top, unit |-> unit, app_prefix |-> app_prefix,
     user_code |-> user_code, filter_prefix |-> filter_prefix]

\* lines 78-84
CommandLines ==
    { FgArgs(DefaultTop, "samples", DefaultAppPrefix, FALSE, <<>>),
      FgArgs(1, "count", DefaultAppPrefix, FALSE, <<>>),
      FgArgs(DefaultTop, "bytes", JavaPrefix, FALSE, <<>>),
      FgArgs(DefaultTop, "samples", DefaultAppPrefix, TRUE, <<>>),
      FgArgs(DefaultTop, "samples", DefaultAppPrefix, FALSE, JavaPrefix) }

InitFlame ==
    /\ prog = "parse_flamegraph"
    /\ pc = "main"
    /\ stdin \in Payloads
    /\ args \in CommandLines
    /\ prom = <<>>
    /\ pyro = <<>>
    /\ Idle

(***************************************************************************)
(* The steps of parse_flamegraph.py                                        *)
(***************************************************************************)
NoDataLine == Text("no_data")

\* lines 86-97
FgLoad ==
    /\ prog = "parse_flamegraph" /\ pc = "main"
    /\ LET fb     == Get(stdin, "flamebearer", <<>>)
           names  == Get(fb, "names", <<>>)
           levels == Get(fb, "levels", <<>>)
           total  == Get(fb, "numTicks", 0)
       IN  /\ fg' = [names |-> names, levels |-> levels, total |-> total,
                     self_map |-> <<>>, li |-> 1]
           /\ IF total = 0
              THEN /\ out' = <<NoDataLine>>
                   /\ pc' = "done"
              ELSE /\ out' = out
                   /\ pc' = "decode"
    /\ UNCHANGED <<prog, args, prom, pyro, thresholds, snap, services, results,
                   loc, report, stdin>>

\* lines 98-105: one level
FgDecodeLevel ==
    /\ prog = "parse_flamegraph" /\ pc = "decode"
    /\ fg.li <= Len(fg.levels)
    /\ LET r == DecodeFrom(fg.levels[fg.li], 0, fg.names, fg.self_map) IN
          /\ fg' = [fg EXCEPT !.self_map = r.self_map,
                              !.li = IF r.raised THEN @ ELSE @ + 1]
          /\ pc' = IF r.raised THEN "IndexError" ELSE "decode"
    /\ UNCHANGED <<prog, args, prom, pyro, thresholds, snap, services, results,
                   loc, report, stdin, out>>

\* lines 107-162
FgReport ==
    /\ prog = "parse_flamegraph" /\ pc = "decode"
    /\ fg.li > Len(fg.levels)
    /\ out' = FgOutput(fg.self_map, fg.total, args)
    /\ pc' = "done"
    /\ UNCHANGED <<prog, args, prom, pyro, thresholds, snap, services, results,
                   loc, report, stdin, fg>>

NextFlame ==
    \/ FgLoad
    \/ FgDecodeLevel
    \/ FgReport

SpecFlame == InitFlame /\ [][NextFlame]_vars

(***************************************************************************)
(* The resolver's verdict and severity                                     *)
(***************************************************************************)
\* the loop of analyze has run its body at least once: loc holds the locals
\* of the last service analysed and loc.result the result appended for it
Analysed ==
    /\ prog = "bottleneck"
    /\ pc \in {"loop", "report", "done"}
    /\ results # <<>>

CpuCond == RGe(loc.c, thresholds.cpu)

GcCond == RGe(loc.g, thresholds.gc)

HeapCond == RGe(loc.hp, thresholds.heap_pct)

MutexCond == loc.mutex_top # <<>> /\ RGt(loc.mutex_top[1].self_pct, R(5, 1))

LatCond == RGt(loc.avg_lat, thresholds.latency_ms)

AnyOfFour == CpuCond \/ GcCond \/ HeapCond \/ MutexCond

CriticalLine == RGe(loc.c, R(8, 10)) \/ RGe(loc.hp, R(85, 100)) \/ RGe(loc.g, R(1, 10))

\* C1: the verdict of every analysed service is the first of cpu-bound,
\* gc-bound, memory-pressure, lock-bound whose condition holds, whatever the
\* magnitudes; when the CPU and the GC condition both hold it is cpu-bound.
C1_VerdictIsFirstInOrder ==
    Analysed =>
        /\ CpuCond => loc.result.verdict = "cpu-bound"
        /\ ~CpuCond /\ GcCond => loc.result.verdict = "gc-bound"
        /\ ~CpuCond /\ ~GcCond /\ HeapCond => loc.result.verdict = "memory-pressure"
        /\ ~CpuCond /\ ~GcCond /\ ~HeapCond /\ MutexCond
              => loc.result.verdict = "lock-bound"
        /\ CpuCond /\ GcCond => loc.result.verdict # "gc-bound"

\* a service whose CPU rate is just at its cutoff while its GC rate is far
\* over its own, and whose verdict is cpu-bound
C1_Witness ==
    /\ Analysed
    /\ CpuCond /\ GcCond
    /\ REq(loc.c, thresholds.cpu)
    /\ RGe(loc.g, RMulInt(thresholds.gc, 3))
    /\ loc.result.verdict = "cpu-bound"

\* C2: the verdict is io-bound exactly when none of the four other signals
\* fired and the average latency is strictly over the latency cutoff.
C2_IoBoundIffAlone ==
    Analysed => (loc.result.verdict = "io-bound" <=> (~AnyOfFour /\ LatCond))

\* a service over the latency cutoff whose verdict is lock-bound, not
\* io-bound, because the mutex signal fired
C2_Witness ==
    /\ Analysed
    /\ LatCond /\ MutexCond
    /\ ~CpuCond /\ ~GcCond /\ ~HeapCond
    /\ loc.result.verdict = "lock-bound"

\* C3: when a signal fired, the severity is critical exactly when
\* cpuRate >= 0.8 or heapPct >= 0.85 or gcRate >= 0.1 and warning otherwise,
\* whatever the verdict and the cutoffs.
C3_SeverityByFixedLines ==
    Analysed /\ loc.signals # <<>> =>
        /\ CriticalLine => loc.result.severity = "critical"
        /\ ~CriticalLine => loc.result.severity = "warning"

\* a lock-bound service, under overridden cutoffs, that is critical by its
\* heap being at 0.85, below the heap cutoff in force
C3_Witness ==
    /\ Analysed
    /\ thresholds # DEFAULT_THRESHOLDS
    /\ loc.result.verdict = "lock-bound"
    /\ REq(loc.hp, R(85, 100)) /\ ~HeapCond
    /\ loc.result.severity = "critical"

\* C4 as stated: every result with cpuRate >= 0.8 is critical, under every
\* threshold configuration.
C4_Original ==
    Analysed => (RGe(loc.c, R(8, 10)) => loc.result.severity = "critical")

\* C4, amended: every result for which a signal fired and with
\* cpuRate >= 0.8 is critical, under every threshold configuration.
C4_CriticalWhenSignalled ==
    Analysed /\ loc.signals # <<>> =>
        (RGe(loc.c, R(8, 10)) => loc.result.severity = "critical")

\* an io-bound service with cpuRate = 0.9, critical
C4_Witness ==
    /\ Analysed
    /\ loc.result.verdict = "io-bound"
    /\ REq(loc.c, R(9, 10))
    /\ loc.result.severity = "critical"

\* C5: when none of the five conditions holds the result is healthy, ok,
\* without a primary function, with the action "No action needed"; and a
\* result with severity ok has the verdict healthy.
C5_HealthyWhenNothingFires ==
    Analysed =>
        /\ ~AnyOfFour /\ ~LatCond =>
              /\ loc.result.verdict = "healthy"
              /\ loc.result.severity = "ok"
              /\ loc.result.primary_function = None
              /\ loc.result.action.template = "No action needed"
        /\ loc.result.severity = "ok" => loc.result.verdict = "healthy"
        /\ \A i \in DOMAIN results :
              results[i].severity = "ok" => results[i].verdict = "healthy"

\* a healthy service whose CPU rate is over the critical line 0.8 and whose
\* latency is at the cutoff
C5_Witness ==
    /\ Analysed
    /\ ~AnyOfFour /\ ~LatCond
    /\ RGe(loc.c, R(8, 10))
    /\ REq(loc.avg_lat, thresholds.latency_ms)
    /\ loc.result.verdict = "healthy"
    /\ loc.result.severity = "ok"

(***************************************************************************)
(* The derived ratios                                                      *)
(***************************************************************************)
\* what analyze reads for an HTTP metric: the instance key, else the bare
\* name, else 0
HttpValue(m, svc) ==
    IF Inst(svc) \in DOMAIN m THEN m[Inst(svc)]
    ELSE IF svc \in DOMAIN m THEN m[svc] ELSE Zero

\* the snapshot holds no sample for the service, or holds 0
ZeroOrAbsent(m, svc) == svc \notin DOMAIN m \/ REq(m[svc], Zero)

\* the per-service list a script emits is complete
Emitted ==
    \/ prog = "bottleneck" /\ pc \in {"report", "done"}
    \/ prog = "jvm_health" /\ pc \in {"print", "done"}
    \/ prog = "diagnose" /\ pc \in {"collect_http", "done"}

\* C6: no division raises, heap_pct is 0 when heapMax is 0 or absent (in
\* analyze, jvm_health and collect_health), err_pct is 0 when reqRate is 0
\* or absent, avg_latency_ms is 0 when the latency count is 0 or absent and
\* is sum/count*1000 when the count is positive, whatever the request rate.
C6_ZeroDenominators ==
    /\ Analysed =>
          LET svc == loc.svc
              ls  == HttpValue(snap.lat_sum, svc)
              lc  == HttpValue(snap.lat_count, svc)
          IN  /\ loc.hp.d # 0 /\ loc.err_pct.d # 0 /\ loc.avg_lat.d # 0
              /\ ZeroOrAbsent(snap.heap_max, svc) =>
                    REq(loc.hp, Zero) /\ REq(loc.result.metrics.heap_pct, Zero)
              /\ REq(HttpValue(snap.req_rate, svc), Zero) => REq(loc.err_pct, Zero)
              /\ REq(lc, Zero) => REq(loc.avg_lat, Zero)
              /\ RGt(lc, Zero) => REq(loc.avg_lat, R(ls.n * lc.d * 1000, ls.d * lc.n))
    /\ prog = "jvm_health" /\ Emitted =>
          \A i \in DOMAIN results :
              /\ results[i].metrics.heap_pct.d # 0
              /\ ZeroOrAbsent(snap.heap_max, results[i].service) =>
                    REq(results[i].metrics.heap_pct, Zero)
    /\ prog = "diagnose" /\ Emitted =>
          \A i \in DOMAIN results :
              /\ results[i].heap_pct.d # 0
              /\ ZeroOrAbsent(snap.heap_max, results[i].service) =>
                    REq(results[i].heap_pct, Zero)
    /\ prog = "diagnose" /\ pc = "done" =>
          \A i \in DOMAIN report.http :
              LET e == report.http[i] IN
              /\ e.err_pct.d # 0 /\ e.avg_latency_ms.d # 0
              /\ ZeroOrAbsent(snap.req_rate, e.instance) => REq(e.err_pct, Zero)
              /\ ZeroOrAbsent(snap.lat_count, e.instance) => REq(e.avg_latency_ms, Zero)

\* a service with heap used and a heap_max of 0, a request rate of 0 with
\* errors, and a latency of 1 s over 2 requests: 500 ms
C6_Witness ==
    /\ Analysed
    /\ loc.svc \in DOMAIN snap.heap_max /\ REq(snap.heap_max[loc.svc], Zero)
    /\ RGt(loc.hu, Zero)
    /\ Inst(loc.svc) \in DOMAIN snap.req_rate /\ REq(loc.rr, Zero) /\ RGt(loc.er, Zero)
    /\ REq(loc.ls, R(1, 1)) /\ REq(loc.lc, R(2, 1))
    /\ REq(loc.hp, Zero) /\ REq(loc.err_pct, Zero) /\ REq(loc.avg_lat, R(500, 1))

(***************************************************************************)
(* The order of the emitted lists                                          *)
(***************************************************************************)
SeverityOf(r) == IF prog = "diagnose" THEN r.status ELSE r.severity

RankOf(sev) ==
    IF sev \in {"critical", "CRITICAL"} THEN 0
    ELSE IF sev \in {"warning", "WARNING"} THEN 1 ELSE 2

\* C7: every emitted list of per-service results is ascending by
\* (severity rank, service identity), critical = 0, warning = 1, ok = 2.
C7_SortedBySeverityThenService ==
    Emitted =>
        \A i, j \in DOMAIN results :
            i < j =>
                LET ri == RankOf(SeverityOf(results[i]))
                    rj == RankOf(SeverityOf(results[j]))
                IN  /\ SeverityOf(results[i]) \in
                          {"critical", "warning", "ok", "CRITICAL", "WARNING", "OK"}
                    /\ \/ ri < rj
                       \/ ri = rj /\ StrLess(results[i].service, results[j].service)

\* services 1: critical, 2: warning, 3: critical are emitted as 1, 3, 2
C7_Witness ==
    /\ prog = "bottleneck" /\ pc = "done"
    /\ Len(results) = 3
    /\ results[1].service = Svc(1) /\ results[1].severity = "critical"
    /\ results[2].service = Svc(3) /\ results[2].severity = "critical"
    /\ results[3].service = Svc(2) /\ results[3].severity = "warning"

(***************************************************************************)
(* The flamebearer decoder                                                 *)
(***************************************************************************)
Flame == prog = "parse_flamegraph" /\ pc # "main"

\* the complete, non-overlapping groups of 4 of a level, numbered from 0
GroupsOf(level) == 0 .. (Len(level) \div 4 - 1)

GroupSelf(level, k) == level[4 * k + 3]

GroupNameIndex(level, k) == level[4 * k + 4]

ValidIndex(names, idx) == 0 <= idx /\ idx < Len(names)

RECURSIVE SumOver(_, _)
SumOver(f, ks) ==
    IF ks = {} THEN 0
    ELSE LET k == CHOOSE x \in ks : TRUE
         IN  f[k] + SumOver(f, ks \ {k})

\* the sum of the positive self values of the groups of a level whose name
\* index is valid and designates name
LevelSelf(level, names, name) ==
    SumOver([k \in GroupsOf(level) |->
                IF /\ GroupSelf(level, k) > 0
                   /\ ValidIndex(names, GroupNameIndex(level, k))
                   /\ names[GroupNameIndex(level, k) + 1] = name
                THEN GroupSelf(level, k) ELSE 0],
            GroupsOf(level))

\* the sum of the positive self values of the groups of a level whose name
\* index is valid
LevelValid(level, names) ==
    SumOver([k \in GroupsOf(level) |->
                IF /\ GroupSelf(level, k) > 0
                   /\ ValidIndex(names, GroupNameIndex(level, k))
                THEN GroupSelf(level, k) ELSE 0],
            GroupsOf(level))

RECURSIVE SelfTime(_, _, _, _)
SelfTime(levels, n, names, name) ==
    IF n = 0 THEN 0
    ELSE LevelSelf(levels[n], names, name) + SelfTime(levels, n - 1, names, name)

RECURSIVE ValidTotal(_, _, _)
ValidTotal(levels, n, names) ==
    IF n = 0 THEN 0
    ELSE LevelValid(levels[n], names) + ValidTotal(levels, n - 1, names)

AllNames == {NameApp, NameJvm, NameJvmSlash, NameLib, NameOther}

Decoded == Flame /\ pc \in {"decode", "done"} /\ fg.total # 0 /\ fg.li > Len(fg.levels)

\* C8: once every level is decoded, the self-time of each function name is
\* the sum of the positive self values of the complete groups of 4 of all
\* levels whose name index designates that name (a name without such a group
\* has no self-time), and a level that ends in a partial group is no error:
\* the decoder raises only on a complete group
C8_Original ==
    /\ Decoded =>
           \A name \in AllNames :
               MapGet(fg.self_map, name, 0) = SelfTime(fg.levels, Len(fg.levels), fg.names, name)
    /\ (Flame /\ pc = "IndexError") => GroupsOf(fg.levels[fg.li]) # {}

\* C9: the decoder never raises, and after each level the self-time map
\* holds exactly what the groups with a valid name index
\* (0 <= nameIndex < length of names) of the levels decoded so far add up
\* to, so that a group with an index out of range, negative included, adds
\* nothing
C9_Original ==
    Flame =>
        /\ pc # "IndexError"
        /\ fg.total # 0 => SumValues(fg.self_map) = ValidTotal(fg.levels, fg.li - 1, fg.names)

NoFlamebearer == "flamebearer" \notin DOMAIN stdin

ZeroTicks ==
    /\ ~NoFlamebearer
    /\ "numTicks" \in DOMAIN stdin.flamebearer
    /\ stdin.flamebearer.numTicks = 0

EmptyLevels ==
    /\ ~NoFlamebearer
    /\ "levels" \in DOMAIN stdin.flamebearer
    /\ stdin.flamebearer.levels = <<>>

\* C10: a payload with numTicks == 0, with an empty levels sequence or
\* without a flamebearer object ends with the 'no data' line as the only
\* output and without a failure, and no line with a percentage is printed
\* when the total is 0
C10_Original ==
    Flame =>
        /\ (NoFlamebearer \/ ZeroTicks \/ EmptyLevels) =>
               /\ pc # "IndexError"
               /\ pc = "done" => out = <<NoDataLine>>
        /\ \A i \in DOMAIN out : out[i].kind \in {"rank", "category"} => fg.total # 0

(***************************************************************************)
(* classify                                                                *)
(***************************************************************************)
\* the lines of the report that carry a function name and its category
RankLines == {i \in DOMAIN out : out[i].kind = "rank"}

\* the name with every '/' written as '.'
Dotted(name) == [k \in DOMAIN name |-> IF name[k] = "/" THEN "." ELSE name[k]]

HasPrefixOf(name, prefixes) ==
    \E p \in prefixes : Len(p) <= Len(name) /\ \A k \in 1..Len(p) : Dotted(name)[k] = p[k]

JvmPrefixSet == {JVM_PREFIXES[i] : i \in DOMAIN JVM_PREFIXES}

LibPrefixSet == {LIB_PREFIXES[i] : i \in DOMAIN LIB_PREFIXES}

\* a and b differ at most in using '/' where the other uses '.'
SameButSeparators(a, b) ==
    /\ Len(a) = Len(b)
    /\ \A k \in DOMAIN a : a[k] = b[k] \/ {a[k], b[k]} = {"/", "."}

\* C11: every function name printed with its category is app exactly when
\* it matches the application prefix, jvm exactly when it does not but
\* matches a JVM prefix, lib exactly when it matches neither but a library
\* prefix, and other exactly when it matches none; and two names that differ
\* only in '/' against '.' have the same category
C11_ClassifyFirstMatch ==
    Flame =>
        /\ \A i \in RankLines :
              LET name == out[i].name
                  app  == HasPrefixOf(name, {args.app_prefix})
                  jvm  == HasPrefixOf(name, JvmPrefixSet)
                  lib  == HasPrefixOf(name, LibPrefixSet)
              IN  /\ out[i].cat \in {"app", "jvm", "lib", "other"}
                  /\ out[i].cat = "app" <=> app
                  /\ out[i].cat = "jvm" <=> ~app /\ jvm
                  /\ out[i].cat = "lib" <=> ~app /\ ~jvm /\ lib
                  /\ out[i].cat = "other" <=> ~app /\ ~jvm /\ ~lib
        /\ \A i, j \in RankLines :
              SameButSeparators(out[i].name, out[j].name) => out[i].cat = out[j].cat

\* two names that differ in their separators, both matching the application
\* prefix and a JVM prefix, are printed as app
C11_Witness ==
    /\ Flame /\ pc = "done"
    /\ \E i, j \in RankLines :
          /\ out[i].name # out[j].name
          /\ SameButSeparators(out[i].name, out[j].name)
          /\ HasPrefixOf(out[i].name, {args.app_prefix})
          /\ HasPrefixOf(out[i].name, JvmPrefixSet)
          /\ out[i].cat = "app" /\ out[j].cat = "app"

(***************************************************************************)
(* The issues of jvm_health                                                *)
(***************************************************************************)
JvmEvaluated == prog = "jvm_health" /\ pc \in {"print", "done"}

\* the four values of a service as the snapshots give them: cpu rate, heap
\* percent, GC rate, thread count
JvmValues(svc) ==
    << Get(snap.cpu, svc, Zero),
       IF /\ svc \in DOMAIN snap.heap_used /\ svc \in DOMAIN snap.heap_max
          /\ RGt(snap.heap_max[svc], Zero)
       THEN R(snap.heap_used[svc].n * snap.heap_max[svc].d,
              snap.heap_used[svc].d * snap.heap_max[svc].n)
       ELSE Zero,
       Get(snap.gc, svc, Zero),
       Get(snap.threads, svc, Zero) >>

JvmCutoffs ==
    <<THRESHOLDS.cpu_rate, THRESHOLDS.heap_pct, THRESHOLDS.gc_rate, THRESHOLDS.threads>>

JvmMetricNames == <<"CPU", "Heap", "GC", "Threads">>

\* the metrics at or above their warn cutoff, in the order cpu, heap, gc, threads
JvmCrossed(svc) ==
    LET AtWarn(k) == RGe(JvmValues(svc)[k], JvmCutoffs[k].warn)
    IN  SelectSeq(<<1, 2, 3, 4>>, AtWarn)

\* C12: the issue list of every service holds one issue for each of the
\* four metrics whose value is >= its warn cutoff and none for the others,
\* in the order cpu, heap, gc, threads; an issue is CRITICAL when the value
\* is >= the crit cutoff and WARNING otherwise; the severity is CRITICAL if
\* an issue is CRITICAL, else WARNING if an issue is WARNING, else OK
C12_OneIssuePerCrossedMetric ==
    JvmEvaluated =>
        \A i \in DOMAIN results :
            LET r       == results[i]
                vals    == JvmValues(r.service)
                crossed == JvmCrossed(r.service)
            IN  /\ Len(r.issues) = Len(crossed)
                /\ \A j \in DOMAIN crossed :
                      /\ r.issues[j].metric = JvmMetricNames[crossed[j]]
                      /\ r.issues[j].level =
                            IF RGe(vals[crossed[j]], JvmCutoffs[crossed[j]].crit)
                            THEN "CRITICAL" ELSE "WARNING"
                /\ r.severity =
                      IF \E j \in DOMAIN r.issues : r.issues[j].level = "CRITICAL"
                      THEN "CRITICAL"
                      ELSE IF \E j \in DOMAIN r.issues : r.issues[j].level = "WARNING"
                      THEN "WARNING" ELSE "OK"

\* a service with the cpu rate at its crit cutoff, the GC rate at its warn
\* cutoff and the thread count below its warn cutoff
C12_Witness ==
    /\ JvmEvaluated
    /\ \E i \in DOMAIN results :
          LET r == results[i] vals == JvmValues(r.service) IN
          /\ REq(vals[1], THRESHOLDS.cpu_rate.crit)
          /\ REq(vals[3], THRESHOLDS.gc_rate.warn)
          /\ ~RGe(vals[2], THRESHOLDS.heap_pct.warn)
          /\ ~RGe(vals[4], THRESHOLDS.threads.warn)
          /\ Len(r.issues) = 2
          /\ r.issues[1].level = "CRITICAL" /\ r.issues[2].level = "WARNING"
          /\ r.severity = "CRITICAL"

(***************************************************************************)
(* The six cutoffs of bottleneck.analyze                                   *)
(***************************************************************************)
HasSignal(kind) == \E i \in DOMAIN loc.signals : loc.signals[i].kind = kind

ThreadsAtCutoff == RGe(R(loc.t, 1), thresholds.threads)

ErrPctAtCutoff == RGe(loc.err_pct, thresholds.err_pct)

LatencyAtCutoff == RGe(loc.avg_lat, thresholds.latency_ms)

\* C13: for the service just analysed, each of cpu, heap_pct and gc has its
\* signal recorded exactly when its value is >= its cutoff, and a thread
\* count, an error percentage or an average latency that is >= its cutoff
\* (equal included) shows in the result: the service is not healthy
C13_Original ==
    Analysed =>
        /\ CpuCond <=> HasSignal("cpu-bound")
        /\ GcCond <=> HasSignal("gc-bound")
        /\ HeapCond <=> HasSignal("memory-pressure")
        /\ ThreadsAtCutoff => loc.result.verdict # "healthy"
        /\ ErrPctAtCutoff => loc.result.verdict # "healthy"
        /\ LatencyAtCutoff => loc.result.verdict # "healthy"

(***************************************************************************)
(* parse_thresholds                                                        *)
(***************************************************************************)
Parsed == prog = "bottleneck" /\ pc # "main"

ThresholdKeys == {"cpu", "heap_pct", "gc", "threads", "err_pct", "latency_ms"}

\* the key=value tokens of the command line whose value is no number
Unparsable == {i \in DOMAIN args.threshold_str :
                  args.threshold_str[i].eq /\ ~args.threshold_str[i].num}

\* the tokens that override key k: key=value with a numeric value
Overrides(k) == {i \in DOMAIN args.threshold_str :
                    /\ args.threshold_str[i].eq /\ args.threshold_str[i].k = k
                    /\ args.threshold_str[i].num}

Max(S) == CHOOSE x \in S : \A y \in S : y <= x

\* the map the defaults and the overrides give: the last override of a key,
\* the default where there is none
Overridden ==
    [k \in ThresholdKeys |->
        IF Overrides(k) # {} THEN args.threshold_str[Max(Overrides(k))].v
        ELSE DEFAULT_THRESHOLDS[k]]

\* C14 as stated: the parse fails when any key=value token has a value that
\* is no number, whatever its key; otherwise it returns the six keys, each
\* with its last override or its default
C14_Original ==
    Parsed =>
        IF Unparsable # {} THEN pc = "ValueError"
        ELSE pc # "ValueError" /\ thresholds = Overridden

\* C14: the parse fails exactly when a key=value token with one of the six
\* keys has a value that is no number; a token with an unknown key is
\* ignored whatever its value; without a failure the result holds the six
\* keys, each with its last override or its default
C14_ParseThresholds ==
    Parsed =>
        IF \E i \in Unparsable : args.threshold_str[i].k \in ThresholdKeys
        THEN pc = "ValueError"
        ELSE pc # "ValueError" /\ thresholds = Overridden

\* an unknown key with a value that is no number, then two overrides of cpu:
\* the parse succeeds with the second
C14_Witness ==
    /\ Parsed /\ pc # "ValueError"
    /\ \E i \in Unparsable : args.threshold_str[i].k \notin ThresholdKeys
    /\ Cardinality(Overrides("cpu")) = 2
    /\ thresholds.cpu = args.threshold_str[Max(Overrides("cpu"))].v
    /\ thresholds.cpu # args.threshold_str[Max(Overrides("cpu")) - 1].v
    /\ thresholds.gc = DEFAULT_THRESHOLDS.gc

(***************************************************************************)
(* Absent entities and unreachable backends in bottleneck.analyze          *)
(***************************************************************************)
BnReturned == prog = "bottleneck" /\ pc \in {"report", "done"}

\* the containers a JVM snapshot of the metrics backend holds
KnownToProm ==
    DOMAIN prom.cpu \cup DOMAIN prom.heap_used \cup DOMAIN prom.heap_max
    \cup DOMAIN prom.gc \cup DOMAIN prom.threads

Selected(svc) == args.service_filter = None \/ args.service_filter = svc

\* C15: a container that some snapshot holds is reported, with the metrics
\* of the snapshots it is absent from as 0, the CPU rate included; with the
\* metrics backend unreachable nothing is reported and nothing raises; with
\* the profiling backend unreachable the hotspot lists are empty and there
\* is no lock-bound verdict and no primary function
C15_Original ==
    BnReturned =>
        /\ args.prom_ok =>
              \A svc \in KnownToProm :
                  Selected(svc) =>
                      \E i \in DOMAIN results :
                          /\ results[i].service = svc
                          /\ svc \notin DOMAIN prom.cpu =>
                                 REq(results[i].metrics.cpu_rate, Zero)
                          /\ svc \notin DOMAIN prom.gc =>
                                 REq(results[i].metrics.gc_rate, Zero)
                          /\ svc \notin DOMAIN prom.threads => results[i].metrics.threads = 0
        /\ ~args.prom_ok => results = <<>>
        /\ ~args.pyro_ok =>
              \A i \in DOMAIN results :
                  /\ results[i].top_cpu = <<>> /\ results[i].top_alloc = <<>>
                  /\ results[i].top_mutex = <<>>
                  /\ results[i].verdict # "lock-bound"
                  /\ results[i].primary_function = None

(***************************************************************************)
(* primary_function                                                        *)
(***************************************************************************)
\* the hotspot list of the result that belongs to its verdict
HotspotsOf(r) ==
    IF r.verdict = "cpu-bound" THEN r.top_cpu
    ELSE IF r.verdict \in {"gc-bound", "memory-pressure"} THEN r.top_alloc
    ELSE IF r.verdict = "lock-bound" THEN r.top_mutex
    ELSE <<>>

\* C16: the primary function of every result is the function name of the
\* first entry of the hotspot list of its verdict (CPU list for cpu-bound,
\* allocation list for gc-bound and memory-pressure, mutex list for
\* lock-bound) and null when that list is empty; it is null for io-bound
\* and healthy, and never comes from the list of a signal later in the order
C16_PrimaryFunctionOfFirstSignal ==
    (prog = "bottleneck") =>
        \A i \in DOMAIN results :
            LET r == results[i] IN
            /\ r.primary_function =
                   IF HotspotsOf(r) = <<>> THEN None ELSE HotspotsOf(r)[1].function
            /\ r.verdict \in {"io-bound", "healthy"} => r.primary_function = None

\* a cpu-bound service without CPU hotspots whose mutex profile fires too:
\* no primary function
C16_Witness ==
    /\ Analysed
    /\ CpuCond /\ MutexCond
    /\ loc.result.verdict = "cpu-bound"
    /\ loc.result.top_cpu = <<>>
    /\ loc.result.top_mutex # <<>>
    /\ loc.result.primary_function = None

(***************************************************************************)
(* The two health evaluators                                               *)
(***************************************************************************)
DgEvaluated == prog = "diagnose" /\ pc \in {"collect_http", "done"}

\* C17: on the same snapshots diagnose.collect_health gives every service
\* the status that jvm_health gives it as severity, and the other way round
C17_Original ==
    /\ DgEvaluated =>
           \A i \in DOMAIN results :
               results[i].status =
                   JvmEvaluate(results[i].service, snap,
                               JvmHeapPct(snap.heap_used, snap.heap_max)).severity
    /\ JvmEvaluated =>
           \A i \in DOMAIN results :
               results[i].severity = DgEvaluate(results[i].service, snap).status

(***************************************************************************)
(* The summary of the bottleneck report                                    *)
(***************************************************************************)
BnReported == prog = "bottleneck" /\ pc = "done"

\* C18: the summary counts partition the services: critical + warning +
\* healthy = total, the number of results; every result has severity ok
\* exactly when its verdict is healthy, and every severity is one of
\* critical, warning, ok
C18_SummaryPartitions ==
    /\ BnReported =>
           /\ report.total = Len(results)
           /\ report.critical + report.warning + report.healthy = report.total
    /\ (prog = "bottleneck") =>
           \A i \in DOMAIN results :
               /\ results[i].severity \in {"critical", "warning", "ok"}
               /\ results[i].severity = "ok" <=> results[i].verdict = "healthy"

\* a report on three services: one critical, one warning, one healthy
C18_Witness ==
    /\ BnReported
    /\ report.total = 3
    /\ report.critical = 1 /\ report.warning = 1 /\ report.healthy = 1

====
